---- MODULE Spec2Model ----
(***************************************************************************)
(* Notification dispatch and recipient resolution of wagtail.admin.utils:  *)
(* users_with_page_permission and send_notification, over a small user,    *)
(* group, page and permission store.                                       *)
(***************************************************************************)
EXTENDS Integers, Sequences, FiniteSets, TLC

\* ------------------------------------------------------------------ bounds

\* Number of rows of the user table.
NumUsers == 2

\* ------------------------------------------------------- the stored world

Users == 1..NumUsers

Groups == {1, 2}

\* The page tree: 1 is the root, 2 and 4 are its children, 3 is a child of 2.
Pages == {1, 2, 3, 4}

Parent(page) == CASE page = 2 -> 1 [] page = 3 -> 2 [] page = 4 -> 1 [] OTHER -> 0

PermissionTypes == {"publish", "edit"}

\* The notification kinds send_notification knows, and one it does not.
KnownNotifications == {"submitted", "approved", "rejected"}

Notifications == KnownNotifications \cup {"published"}

\* The NULL side of a LEFT OUTER JOIN row.
NoPerm == [group |-> 0, page |-> 0, permission_type |-> ""]

\* email_subject before the loop has assigned it (and an absent html_message).
Unbound == [template |-> "", user |-> 0, locale |-> ""]

\* Address of user u when it has one.
Address(u) == "user" \o ToString(u) \o "@example.com"

\* UserProfile.get_preferred_language() of user u; the language active
\* outside any override is "en".
PreferredLanguage(u) == "lang" \o ToString(u)

DefaultLanguage == "en"

\* The only revision stored: revision 1, of page 2, submitted by user 1.
RevisionIds == {1}

Revision(id) == [id |-> id, page |-> 2, user |-> 1]

VARIABLES
    users,              \* user table: pk -> row (with its profile's flags)
    page_permissions,   \* GroupPagePermission rows
    resolve_args,       \* arguments of the users_with_page_permission call
    resolve_result,     \* its result: pk -> number of rows returned
    pc,                 \* "idle", "resolved", "loop", "returned", "raised"
    call,               \* arguments of send_notification
    include_superusers, \* WAGTAILADMIN_NOTIFICATION_INCLUDE_SUPERUSERS as read
    use_html,           \* WAGTAILADMIN_NOTIFICATION_USE_HTML as read
    email_recipients,   \* the filtered recipients, in iteration order
    i,                  \* position of the loop in email_recipients
    sent_count,
    email_subject,      \* the local variable; Unbound before its first assignment
    locale,             \* the active translation language
    renders,            \* render_to_string calls made
    mails,              \* send_mail calls made
    attempts,           \* per loop iteration taken: how it ended
    logged,             \* logger.exception calls completed
    result              \* "none", "True", "False", or the exception raised

world == <<users, page_permissions>>

resolver == <<resolve_args, resolve_result>>

vars == <<users, page_permissions, resolve_args, resolve_result, pc, call,
          include_superusers, use_html, email_recipients, i, sent_count,
          email_subject, locale, renders, mails, attempts, logged, result>>

\* ------------------------------------------------ users_with_page_permission

\* page.get_ancestors(): the pages strictly above page.
RECURSIVE get_ancestors(_)
get_ancestors(page) ==
    IF Parent(page) = 0 THEN {} ELSE get_ancestors(Parent(page)) \cup {Parent(page)}

ancestors_and_self(page) == get_ancestors(page) \cup {page}

\* GroupPagePermission.objects.filter(permission_type=..., page__in=...)
perm(page, permission_type) ==
    {p \in page_permissions :
        p.permission_type = permission_type /\ p.page \in ancestors_and_self(page)}

\* The rows of user u joined (LEFT OUTER) with its groups and their page
\* permissions, as the groups__page_permissions lookup spans them.
JoinRows(u) ==
    IF users[u].groups = {}
    THEN {[group |-> 0, perm |-> NoPerm]}
    ELSE UNION {
        IF {p \in page_permissions : p.group = g} = {}
        THEN {[group |-> g, perm |-> NoPerm]}
        ELSE {[group |-> g, perm |-> p] : p \in {p \in page_permissions : p.group = g}}
        : g \in users[u].groups}

\* A query that adds the superuser clause whatever include_superusers says.
q_superusers_always(u, row, page, permission_type, inc_superusers) ==
    \/ row.perm \in perm(page, permission_type)
    \/ users[u].is_superuser

\* q = Q(groups__page_permissions__in=perm), q |= Q(is_superuser=True)
q(u, row, page, permission_type, inc_superusers) ==
    \/ row.perm \in perm(page, permission_type)
    \/ inc_superusers /\ users[u].is_superuser

\* User.objects.filter(is_active=True).filter(q): rows returned per user.
FilteredRows(page, permission_type, inc_superusers) ==
    [u \in Users |->
        IF users[u].is_active
        THEN Cardinality({row \in JoinRows(u) :
                            q(u, row, page, permission_type, inc_superusers)})
        ELSE 0]

\* A query that forgets .distinct().
distinct_missing(rows) == rows

\* .distinct()
distinct(rows) == [u \in DOMAIN rows |-> IF rows[u] > 0 THEN 1 ELSE 0]

users_with_page_permission(page, permission_type, inc_superusers) ==
    distinct(FilteredRows(page, permission_type, inc_superusers))

NoArgs == [page |-> 0, permission_type |-> "", include_superusers |-> FALSE]

NoRows == [u \in Users |-> 0]

\* ------------------------------------------------------------ initial states

\* Rows a user table may hold in the resolver's specification.
ResolveUserRows ==
    [email : {"x"}, is_active : BOOLEAN, is_superuser : BOOLEAN,
     groups : SUBSET Groups,
     profile : {[submitted_notifications |-> TRUE, approved_notifications |-> TRUE,
                 rejected_notifications |-> TRUE]}]

\* Permission rows the resolver's specification chooses from.
PermissionPool ==
    { [group |-> 1, page |-> 1, permission_type |-> "publish"],
      [group |-> 2, page |-> 2, permission_type |-> "publish"],
      [group |-> 1, page |-> 3, permission_type |-> "publish"],
      [group |-> 2, page |-> 4, permission_type |-> "publish"],
      [group |-> 1, page |-> 2, permission_type |-> "edit"] }

Idle ==
    /\ resolve_args = NoArgs
    /\ resolve_result = NoRows
    /\ pc = "idle"
    /\ call = [page_revision_id |-> 0, notification |-> "", excluded_user_id |-> 0]
    /\ include_superusers = TRUE
    /\ use_html = FALSE
    /\ email_recipients = <<>>
    /\ i = 1
    /\ sent_count = 0
    /\ email_subject = Unbound
    /\ locale = DefaultLanguage
    /\ renders = <<>>
    /\ mails = <<>>
    /\ attempts = <<>>
    /\ logged = 0
    /\ result = "none"

InitResolve ==
    /\ users \in [Users -> ResolveUserRows]
    /\ page_permissions \in SUBSET PermissionPool
    /\ Idle

\* A direct call of users_with_page_permission.
Resolve(page, permission_type, inc_superusers) ==
    /\ pc = "idle"
    /\ pc' = "resolved"
    /\ resolve_args' = [page |-> page, permission_type |-> permission_type,
                        include_superusers |-> inc_superusers]
    /\ resolve_result' = users_with_page_permission(page, permission_type, inc_superusers)
    /\ UNCHANGED <<world, call, include_superusers, use_html, email_recipients, i,
                   sent_count, email_subject, locale, renders, mails, attempts,
                   logged, result>>

NextResolve ==
    \E page \in Pages, permission_type \in PermissionTypes, inc_superusers \in BOOLEAN :
        Resolve(page, permission_type, inc_superusers)

SpecResolve == InitResolve /\ [][NextResolve]_vars

\* ------------------------------------------------------------ send_notification

template_subject(notification) == "wagtailadmin/notifications/" \o notification \o "_subject.txt"

template_text(notification) == "wagtailadmin/notifications/" \o notification \o ".txt"

template_html(notification) == "wagtailadmin/notifications/" \o notification \o ".html"

\* The ways one loop iteration can go: everything works, or the named call raises.
Outcomes == {"ok", "render_subject", "render_text", "render_html", "send_mail"}

RECURSIVE SumRows(_, _)
SumRows(rows, S) ==
    IF S = {} THEN 0
    ELSE LET u == CHOOSE x \in S : TRUE IN rows[u] + SumRows(rows, S \ {u})

\* The orders in which a queryset without an ordering may yield its rows.
Orderings(rows) ==
    LET n == SumRows(rows, DOMAIN rows) IN
    {s \in [1..n -> DOMAIN rows] :
        \A u \in DOMAIN rows : Cardinality({k \in 1..n : s[k] = u}) = rows[u]}

\* A lookup that swallows the missing revision.
LookupRaises_swallowed(page_revision_id) == FALSE

\* PageRevision.objects.get(id=page_revision_id) raises DoesNotExist.
LookupRaises(page_revision_id) == page_revision_id \notin RevisionIds

\* recipients, by kind of notification (a known one).
Recipients(revision, notification, inc_superusers) ==
    IF notification = "submitted"
    THEN Orderings(users_with_page_permission(revision.page, "publish", inc_superusers))
    ELSE {<<revision.user>>}

\* A comprehension that forgets the excluded user.
KeepRecipient_with_excluded(recipient, notification, excluded_user_id) ==
    /\ users[recipient].email # ""
    /\ users[recipient].profile[notification \o "_notifications"]

\* A comprehension that forgets the empty address.
KeepRecipient_without_email(recipient, notification, excluded_user_id) ==
    /\ recipient # excluded_user_id
    /\ users[recipient].profile[notification \o "_notifications"]

\* The condition of the email_recipients comprehension.
KeepRecipient(recipient, notification, excluded_user_id) ==
    /\ users[recipient].email # ""
    /\ recipient # excluded_user_id
    /\ users[recipient].profile[notification \o "_notifications"]

EmailRecipients(recipients, notification, excluded_user_id) ==
    SelectSeq(recipients, LAMBDA r : KeepRecipient(r, notification, excluded_user_id))

\* A render_to_string call: what is rendered, for whom, under which language.
Render(template, recipient, language) ==
    [template |-> template, user |-> recipient, locale |-> language]

\* The language active inside "with override(language)".
OverrideEnter(language) == language

\* The language active once the override block is left, normally or by an exception.
OverrideExit(saved) == saved

\* The render_to_string calls one iteration makes, in order, given how it goes.
IterationRenders(recipient, notification, html, active, outcome) ==
    LET inside == OverrideEnter(PreferredLanguage(recipient))
        after == OverrideExit(active)
        subject == <<Render(template_subject(notification), recipient, inside)>>
        text == <<Render(template_text(notification), recipient, inside)>>
        markup == <<Render(template_html(notification), recipient, after)>>
    IN  IF outcome = "render_subject" THEN subject
        ELSE IF outcome = "render_text" THEN subject \o text
        ELSE IF html THEN subject \o text \o markup
        ELSE subject \o text

\* The message send_mail hands to the transport.
send_mail(subject, message, recipient_list, html_message, recipient, active) ==
    [subject |-> subject, message |-> message, recipient_list |-> recipient_list,
     html_message |-> html_message, user |-> recipient, locale |-> active]

\* Rows a user table may hold in the notifier's specification.
NotifyProfiles ==
    { [submitted_notifications |-> b, approved_notifications |-> b,
       rejected_notifications |-> b] : b \in BOOLEAN }

NotifyUserRows ==
    UNION { [email : {"", Address(u)}, is_active : BOOLEAN, is_superuser : BOOLEAN,
             groups : {{}, {1}}, profile : NotifyProfiles] : u \in Users }

Init ==
    /\ users \in {f \in [Users -> NotifyUserRows] :
                    \A u \in Users : f[u].email \in {"", Address(u)}}
    /\ page_permissions = { [group |-> 1, page |-> 1, permission_type |-> "publish"],
                            [group |-> 1, page |-> 2, permission_type |-> "edit"] }
    /\ Idle

\* send_notification up to the loop: lookup, recipients, filter, early returns.
SendNotification(page_revision_id, notification, excluded_user_id, inc_superusers, html) ==
    /\ pc = "idle"
    /\ call' = [page_revision_id |-> page_revision_id, notification |-> notification,
                excluded_user_id |-> excluded_user_id]
    /\ UNCHANGED <<world, i, sent_count, email_subject, locale, renders, mails,
                   attempts, logged>>
    /\ IF LookupRaises(page_revision_id)
       THEN \* the exception leaves send_notification
            /\ inc_superusers /\ ~html
            /\ pc' = "raised"
            /\ result' = "DoesNotExist"
            /\ UNCHANGED <<resolver, include_superusers, use_html, email_recipients>>
       ELSE IF notification \notin KnownNotifications
       THEN /\ inc_superusers /\ ~html
            /\ pc' = "returned"
            /\ result' = "False"
            /\ UNCHANGED <<resolver, include_superusers, use_html, email_recipients>>
       ELSE \E recipients \in Recipients(Revision(page_revision_id), notification,
                                         inc_superusers) :
            /\ notification # "submitted" => inc_superusers
            /\ include_superusers' = inc_superusers
            /\ IF notification = "submitted"
               THEN /\ resolve_args' = [page |-> Revision(page_revision_id).page,
                                        permission_type |-> "publish",
                                        include_superusers |-> inc_superusers]
                    /\ resolve_result' = users_with_page_permission(
                            Revision(page_revision_id).page, "publish", inc_superusers)
               ELSE UNCHANGED resolver
            /\ email_recipients' = EmailRecipients(recipients, notification,
                                                   excluded_user_id)
            /\ IF email_recipients' = <<>>
               THEN /\ ~html
                    /\ pc' = "returned"
                    /\ result' = "True"
                    /\ UNCHANGED use_html
               ELSE /\ pc' = "loop"
                    /\ use_html' = html
                    /\ UNCHANGED result

\* One iteration of the loop over email_recipients, exception handler included.
LoopBody(outcome) ==
    /\ pc = "loop"
    /\ i <= Len(email_recipients)
    /\ outcome = "render_html" => use_html
    /\ LET recipient == email_recipients[i]
           notification == call.notification
           made == IterationRenders(recipient, notification, use_html, locale, outcome)
           subject == IF outcome = "render_subject" THEN email_subject ELSE made[1]
       IN  /\ renders' = renders \o made
           /\ email_subject' = subject
           /\ locale' = OverrideExit(locale)
           /\ mails' = IF outcome \in {"ok", "send_mail"}
                       THEN Append(mails,
                                send_mail(subject, made[2], <<users[recipient].email>>,
                                          IF use_html THEN made[3] ELSE Unbound,
                                          recipient, OverrideExit(locale)))
                       ELSE mails
           /\ sent_count' = IF outcome = "ok" THEN sent_count + 1 ELSE sent_count
           /\ attempts' = Append(attempts, [user |-> recipient, outcome |-> outcome])
           /\ IF outcome # "ok" /\ subject = Unbound
              THEN \* the handler's own read of email_subject raises
                   /\ pc' = "raised"
                   /\ result' = "UnboundLocalError"
                   /\ UNCHANGED <<i, logged>>
              ELSE /\ logged' = IF outcome = "ok" THEN logged ELSE logged + 1
                   /\ i' = i + 1
                   /\ UNCHANGED <<pc, result>>
    /\ UNCHANGED <<world, resolver, call, include_superusers, use_html, email_recipients>>

\* return sent_count == len(email_recipients)
Return ==
    /\ pc = "loop"
    /\ i > Len(email_recipients)
    /\ pc' = "returned"
    /\ result' = IF sent_count = Len(email_recipients) THEN "True" ELSE "False"
    /\ UNCHANGED <<world, resolver, call, include_superusers, use_html, email_recipients,
                   i, sent_count, email_subject, locale, renders, mails, attempts, logged>>

Next ==
    \/ \E page_revision_id \in RevisionIds \cup {2}, notification \in Notifications,
          excluded_user_id \in Users \cup {0}, inc_superusers \in BOOLEAN, html \in BOOLEAN :
          SendNotification(page_revision_id, notification, excluded_user_id,
                           inc_superusers, html)
    \/ \E outcome \in Outcomes : LoopBody(outcome)
    \/ Return

Spec == Init /\ [][Next]_vars

\* -------------------------------------------------------------- properties

\* The call has ended, by a return or by an exception.
Ended == pc \in {"returned", "raised"}

\* The call's revision lookup succeeded.
LookedUp == call.page_revision_id \in RevisionIds

Known == call.notification \in KnownNotifications

\* node is page itself or one of the pages above it (the tree is three deep).
OnChain(node, page) ==
    node # 0 /\ node \in {page, Parent(page), Parent(Parent(page))}

\* u is member of a group holding a grant of that type on the page or above it.
HoldsGrant(u, page, permission_type) ==
    \E p \in page_permissions :
        /\ p.group \in users[u].groups
        /\ p.permission_type = permission_type
        /\ OnChain(p.page, page)

\* u's opt-in flag for a kind of notification.
OptedIn(u, notification) ==
    CASE notification = "submitted" -> users[u].profile.submitted_notifications
      [] notification = "approved" -> users[u].profile.approved_notifications
      [] notification = "rejected" -> users[u].profile.rejected_notifications
      [] OTHER -> FALSE

\* u is a candidate recipient of the call, by its kind.
Candidate(u) ==
    IF call.notification = "submitted"
    THEN /\ users[u].is_active
         /\ \/ HoldsGrant(u, Revision(call.page_revision_id).page, "publish")
            \/ include_superusers /\ users[u].is_superuser
    ELSE u = Revision(call.page_revision_id).user

\* u passes the filter of the call.
Passes(u) ==
    /\ users[u].email # ""
    /\ u # call.excluded_user_id
    /\ OptedIn(u, call.notification)

Successes == Cardinality({k \in DOMAIN attempts : attempts[k].outcome = "ok"})

\* C1: once the revision lookup has succeeded, send_notification never raises:
\* whatever fails for whichever recipient, the call ends by returning a boolean.
C1_NeverRaisesAfterLookup ==
    (Ended /\ LookedUp) => (pc = "returned" /\ result \in {"True", "False"})

\* C2: for an existing revision and a known kind the call returns True exactly
\* when every filtered recipient's render-and-send completed, and False as soon
\* as one of them failed.
C2_TrueIffAllSent ==
    (Ended /\ LookedUp /\ Known) =>
        /\ (result = "True") <=> (Successes = Len(email_recipients))
        /\ (\E k \in DOMAIN attempts : attempts[k].outcome # "ok") => result = "False"

\* C3: within one call every filtered recipient is processed exactly once, in
\* sequence, whatever failed before it, and nobody gets two transport calls.
C3_EveryRecipientProcessedOnce ==
    (Ended /\ LookedUp /\ Known) =>
        /\ Len(attempts) = Len(email_recipients)
        /\ \A k \in DOMAIN attempts : attempts[k].user = email_recipients[k]
        /\ \A u \in Users : Cardinality({k \in DOMAIN mails : mails[k].user = u}) <= 1

\* C4: no transport call is addressed to a user whose active flag is unset,
\* publisher or submitter.
C4_NoMailToInactive ==
    \A k \in DOMAIN mails : users[mails[k].user].is_active

\* C5 as stated: with include_superusers disabled the resolver returns no
\* superuser, whatever the groups of that user.
C5_NoSuperuserWhenFlagOff ==
    (pc = "resolved" /\ ~resolve_args.include_superusers) =>
        \A u \in Users : resolve_result[u] > 0 => ~users[u].is_superuser

\* C5 as amended: with include_superusers disabled a superuser is returned only
\* when active and member of a group holding a grant of the type on the page or
\* above it; the superuser flag alone never qualifies.
C5_SuperuserOnlyByGrantWhenFlagOff ==
    (pc = "resolved" /\ ~resolve_args.include_superusers) =>
        \A u \in Users :
            (resolve_result[u] > 0 /\ users[u].is_superuser) =>
                /\ users[u].is_active
                /\ HoldsGrant(u, resolve_args.page, resolve_args.permission_type)

\* With the flag off, one superuser is returned (through a group) and another,
\* active but without a grant, is not.
C5_Witness ==
    /\ pc = "resolved"
    /\ ~resolve_args.include_superusers
    /\ \E u \in Users : users[u].is_superuser /\ resolve_result[u] = 1
    /\ \E v \in Users : users[v].is_superuser /\ users[v].is_active
                        /\ resolve_result[v] = 0

\* C6: every transport call is addressed to exactly one user, who has a
\* non-empty address, is not the excluded user and has the kind's preference on.
C6_MailOnlyToKeptRecipient ==
    \A k \in DOMAIN mails :
        /\ Len(mails[k].recipient_list) = 1
        /\ mails[k].recipient_list[1] = users[mails[k].user].email
        /\ users[mails[k].user].email # ""
        /\ mails[k].user # call.excluded_user_id
        /\ OptedIn(mails[k].user, call.notification)

\* A mail went out while the excluded user was a candidate with an address
\* and the preference on.
C6_Witness ==
    /\ mails # <<>>
    /\ call.excluded_user_id \in Users
    /\ Candidate(call.excluded_user_id)
    /\ users[call.excluded_user_id].email # ""
    /\ OptedIn(call.excluded_user_id, call.notification)

\* C7: the resolver returns, once each, exactly the users that are active and
\* either member of a group holding a grant of the type on the page or above it,
\* or superuser with include_superusers set.
C7_ResolvesExactly ==
    pc = "resolved" =>
        \A u \in Users :
            resolve_result[u] =
                IF /\ users[u].is_active
                   /\ \/ HoldsGrant(u, resolve_args.page, resolve_args.permission_type)
                      \/ resolve_args.include_superusers /\ users[u].is_superuser
                THEN 1 ELSE 0

\* A user qualifying through several rows of the join is returned once, while
\* an active member of some group who does not qualify is not returned.
C7_Witness ==
    /\ pc = "resolved"
    /\ \E u \in Users :
        /\ FilteredRows(resolve_args.page, resolve_args.permission_type,
                        resolve_args.include_superusers)[u] >= 2
        /\ resolve_result[u] = 1
    /\ \E v \in Users :
        /\ users[v].is_active /\ users[v].groups # {}
        /\ resolve_result[v] = 0

\* C8: an unknown kind on an existing revision returns False with no resolver,
\* renderer or transport call; a missing revision raises DoesNotExist.
C8_UnknownKindOrMissingRevision ==
    /\ (Ended /\ LookedUp /\ ~Known) =>
            /\ pc = "returned" /\ result = "False"
            /\ resolve_args = NoArgs /\ renders = <<>> /\ mails = <<>>
    /\ (pc \notin {"idle", "resolved"} /\ ~LookedUp) =>
            /\ pc = "raised" /\ result = "DoesNotExist"
            /\ resolve_args = NoArgs /\ renders = <<>> /\ mails = <<>>

\* The call with an unknown kind on the stored revision has returned.
C8_Witness ==
    pc = "returned" /\ LookedUp /\ ~Known /\ result = "False"

\* C9: when no candidate passes the filter the call returns True with no
\* render and no transport call.
C9_EmptyFilterIsVacuousSuccess ==
    (Ended /\ LookedUp /\ Known /\ \A u \in Users : ~(Candidate(u) /\ Passes(u))) =>
        /\ pc = "returned" /\ result = "True"
        /\ renders = <<>> /\ mails = <<>>

\* An approved call whose excluded user is the submitter, who has an address
\* and the preference on, has returned.
C9_Witness ==
    /\ pc = "returned"
    /\ call.notification = "approved"
    /\ call.excluded_user_id = Revision(call.page_revision_id).user
    /\ users[call.excluded_user_id].email # ""
    /\ users[call.excluded_user_id].profile.approved_notifications
    /\ result = "True"

\* C10: every render of a recipient's message (subject, text, html) runs under
\* that recipient's preferred language, and the override is released before
\* the send and before the next recipient.
C10_RendersInRecipientLanguage ==
    /\ \A k \in DOMAIN renders :
            renders[k].locale = PreferredLanguage(renders[k].user)
    /\ \A k \in DOMAIN mails : mails[k].locale = DefaultLanguage
    /\ locale = DefaultLanguage

====
